---- MODULE Spec2Model ----
(***************************************************************************)
(* Weather agent pipeline (examples/serving/weather_pipeline.py).          *)
(*                                                                         *)
(* Two steps composed by weather_agent_pipeline:                           *)
(*   get_weather(city)                     -> reading                      *)
(*   analyze_weather_with_llm(reading,city) -> report string               *)
(*                                                                         *)
(* Units and encodings                                                     *)
(*   - temperature, wind_speed and the random draw are floats in the code;  *)
(*     they are carried here in tenths (Tenths per unit), so 24.9 is 249.   *)
(*   - humidity is a whole percentage.                                     *)
(*   - a string used character by character (city) is the sequence of its  *)
(*     character codes (ord).                                              *)
(*   - an Optional value is a sequence of length 0 (None) or 1.            *)
(*   - a report (an f-string) is the record of the parts substituted into  *)
(*     its template; the warning text is the sequence of the notes that    *)
(*     were concatenated, in order.                                        *)
(***************************************************************************)
EXTENDS Integers, Sequences, FiniteSets

VARIABLES
    pc,            \* position of the running call
    city,          \* argument `city`
    weather_data,  \* Optional reading handed from get_weather to the analysis
    api_key,       \* Optional value read from OPENAI_API_KEY
    response,      \* Optional reply of client.chat.completions.create
    requests,      \* the remote requests issued by this call, in order
    exc,           \* Optional exception: caught by `except`, or propagating
    analysis       \* Optional report returned by analyze_weather_with_llm

vars == <<pc, city, weather_data, api_key, response, requests, exc, analysis>>

None == <<>>
Some(v) == <<v>>

(***************************************************************************)
(* Bounds of the model.                                                    *)
(***************************************************************************)
MaxCityLen == 4     \* every city over Alphabet up to this length
MaxLongLen == 16    \* plus one-letter-repeated cities of length 14..MaxLongLen
Window == 2         \* readings within Window of every threshold (direct call)
MaxRequests == 3    \* cap of the request counter

(***************************************************************************)
(* Program constants.                                                      *)
(***************************************************************************)
Tenths == 10
TempModulus == 30
UniformA == -5
UniformB == 5
HumidityBase == 40
HumidityModulus == 40
WindBase == 5
WindModulus == 15
HighHumidity == 80
LowHumidity == 30
StrongWind == 20

\* character codes: ' ', 'O', 'P', 'a', 'z'
Alphabet == {32, 79, 80, 97, 122}

\* str.lower() on one character of the Latin-1 range
lower(c) ==
    IF (c >= 65 /\ c <= 90) \/ (c >= 192 /\ c <= 222 /\ c # 215)
    THEN c + 32 ELSE c

RECURSIVE SumLower(_)
\* sum(ord(c) for c in city.lower())
SumLower(s) == IF s = <<>> THEN 0 ELSE lower(Head(s)) + SumLower(Tail(s))

temp_base(s) == SumLower(s) % TempModulus

\* the values random.uniform(-5, 5) is sampled at (tenths)
Draws == {UniformA * Tenths, -1, 0, 1, UniformB * Tenths}

Raise(e) == [raised |-> TRUE, exception |-> e]
Return(v) == [raised |-> FALSE, value |-> v]

\* get_weather with the humidity taken without the modulus
get_weather_nomod(c, draw) ==
    IF c = <<>> THEN Raise("IndexError")
    ELSE Return([temperature |-> temp_base(c) * Tenths + draw,
                 humidity |-> HumidityBase + c[1],
                 wind_speed |-> (WindBase + (Len(c) % WindModulus)) * Tenths])

\* get_weather answering an empty city with a default reading
get_weather_default(c, draw) ==
    IF c = <<>>
    THEN Return([temperature |-> temp_base(c) * Tenths + draw,
                 humidity |-> HumidityBase,
                 wind_speed |-> (WindBase + (Len(c) % WindModulus)) * Tenths])
    ELSE Return([temperature |-> temp_base(c) * Tenths + draw,
                 humidity |-> HumidityBase + (c[1] % HumidityModulus),
                 wind_speed |-> (WindBase + (Len(c) % WindModulus)) * Tenths])

\* get_weather with the base temperature taken modulo 31
get_weather_mod31(c, draw) ==
    IF c = <<>> THEN Raise("IndexError")
    ELSE Return([temperature |-> (SumLower(c) % (TempModulus + 1)) * Tenths + draw,
                 humidity |-> HumidityBase + (c[1] % HumidityModulus),
                 wind_speed |-> (WindBase + (Len(c) % WindModulus)) * Tenths])

\* get_weather: city[0] of an empty string raises IndexError
get_weather(c, draw) ==
    IF c = <<>> THEN Raise("IndexError")
    ELSE Return([temperature |-> temp_base(c) * Tenths + draw,
                 humidity |-> HumidityBase + (c[1] % HumidityModulus),
                 wind_speed |-> (WindBase + (Len(c) % WindModulus)) * Tenths])

(***************************************************************************)
(* analyze_weather_with_llm: the remote attempt.                           *)
(***************************************************************************)

\* values os.getenv("OPENAI_API_KEY") can give: unset, set but empty, set
ApiKeys == {None, Some(""), Some("sk-test")}

\* `if not api_key` taken for every key, so the check never raises
KeyMissingNever(k) == FALSE

\* `if not api_key`: None and the empty string are both falsy
KeyMissing(k) == k = None \/ k[1] = ""

\* replies of client.chat.completions.create: no choice, a choice whose
\* content is None, a choice with text
Responses ==
    { [choices |-> <<>>],
      [choices |-> << [content |-> None] >>],
      [choices |-> << [content |-> Some("Mild and dry; a light jacket will do.")] >>] }

\* f-string rendering of an Optional[str]: None renders as "None"
Render(content) == IF content = None THEN "None" ELSE content[1]

\* failures of constructing the client and of the request
ClientErrors == {"OpenAIError"}
CreateErrors == {"APIConnectionError", "APITimeoutError", "RateLimitError",
                 "AuthenticationError"}

\* the exceptions the try block can raise, all subclasses of Exception
Exceptions ==
    {"ModuleNotFoundError", "ImportError", "IndexError"}
        \cup ClientErrors \cup CreateErrors

\* an `except ImportError` clause: only the import errors are handled
HandlerImportOnly(e) ==
    IF e \in {"ModuleNotFoundError", "ImportError"} THEN "except" ELSE "raised"

\* a handler that repeats the request after a failed one
HandlerRetry(e) == IF e \in CreateErrors THEN "create" ELSE "except"

\* where control goes when the try block raises e: `except Exception`
Handler(e) == IF e \in Exceptions THEN "except" ELSE "raised"

\* the report of the success path (lines 78-84)
LLMReport(data, c, llm_analysis) ==
    [ title |-> "LLM Weather Analysis for",
      city |-> c,
      body |-> llm_analysis,
      raw |-> data,
      provenance |-> "Powered by: OpenAI GPT-3.5-turbo" ]

(***************************************************************************)
(* analyze_weather_with_llm: the rule-based fallback.                      *)
(***************************************************************************)

\* the bucket table with closed upper bounds (t <= bound)
BucketClosed(temp) ==
    IF temp <= 0 * Tenths THEN
        [ temp_desc |-> "freezing", comfort |-> 2,
          activities |-> "indoor activities, ice skating",
          clothing |-> "heavy winter coat, gloves, warm boots",
          warning |-> << "Risk of frostbite - limit outdoor exposure" >> ]
    ELSE IF temp <= 10 * Tenths THEN
        [ temp_desc |-> "cold", comfort |-> 4,
          activities |-> "brisk walks, winter sports",
          clothing |-> "warm jacket, layers, closed shoes",
          warning |-> << "Bundle up to stay warm" >> ]
    ELSE IF temp <= 25 * Tenths THEN
        [ temp_desc |-> "pleasant", comfort |-> 8,
          activities |-> "hiking, cycling, outdoor dining",
          clothing |-> "light jacket or sweater",
          warning |-> << "Perfect weather for outdoor activities!" >> ]
    ELSE IF temp <= 35 * Tenths THEN
        [ temp_desc |-> "hot", comfort |-> 6,
          activities |-> "swimming, early morning walks",
          clothing |-> "light clothing, sun hat, sunscreen",
          warning |-> << "Stay hydrated and seek shade" >> ]
    ELSE
        [ temp_desc |-> "extremely hot", comfort |-> 3,
          activities |-> "indoor activities, swimming",
          clothing |-> "minimal light clothing, sun protection",
          warning |-> << "Heat warning - avoid prolonged sun exposure" >> ]

\* the if/elif chain on temp (lines 91-120)
Bucket(temp) ==
    IF temp < 0 * Tenths THEN
        [ temp_desc |-> "freezing", comfort |-> 2,
          activities |-> "indoor activities, ice skating",
          clothing |-> "heavy winter coat, gloves, warm boots",
          warning |-> << "Risk of frostbite - limit outdoor exposure" >> ]
    ELSE IF temp < 10 * Tenths THEN
        [ temp_desc |-> "cold", comfort |-> 4,
          activities |-> "brisk walks, winter sports",
          clothing |-> "warm jacket, layers, closed shoes",
          warning |-> << "Bundle up to stay warm" >> ]
    ELSE IF temp < 25 * Tenths THEN
        [ temp_desc |-> "pleasant", comfort |-> 8,
          activities |-> "hiking, cycling, outdoor dining",
          clothing |-> "light jacket or sweater",
          warning |-> << "Perfect weather for outdoor activities!" >> ]
    ELSE IF temp < 35 * Tenths THEN
        [ temp_desc |-> "hot", comfort |-> 6,
          activities |-> "swimming, early morning walks",
          clothing |-> "light clothing, sun hat, sunscreen",
          warning |-> << "Stay hydrated and seek shade" >> ]
    ELSE
        [ temp_desc |-> "extremely hot", comfort |-> 3,
          activities |-> "indoor activities, swimming",
          clothing |-> "minimal light clothing, sun protection",
          warning |-> << "Heat warning - avoid prolonged sun exposure" >> ]

HighHumidityNote == "High humidity will make it feel warmer."
LowHumidityNote == "Low humidity may cause dry skin."
StrongWindNote == "Strong winds - secure loose items."

\* humidity adjustment whose low-humidity branch also lowers the comfort
HumidityAdjustBothLower(b, humidity) ==
    IF humidity > HighHumidity THEN
        [b EXCEPT !.comfort = @ - 1, !.warning = Append(@, HighHumidityNote)]
    ELSE IF humidity < LowHumidity THEN
        [b EXCEPT !.comfort = @ - 1, !.warning = Append(@, LowHumidityNote)]
    ELSE b

\* humidity adjustment lowering the comfort by 2
HumidityAdjustBy2(b, humidity) ==
    IF humidity > HighHumidity THEN
        [b EXCEPT !.comfort = @ - 2, !.warning = Append(@, HighHumidityNote)]
    ELSE IF humidity < LowHumidity THEN
        [b EXCEPT !.warning = Append(@, LowHumidityNote)]
    ELSE b

\* humidity adjustment (lines 123-127)
HumidityAdjust(b, humidity) ==
    IF humidity > HighHumidity THEN
        [b EXCEPT !.comfort = @ - 1, !.warning = Append(@, HighHumidityNote)]
    ELSE IF humidity < LowHumidity THEN
        [b EXCEPT !.warning = Append(@, LowHumidityNote)]
    ELSE b

\* wind adjustment firing at the threshold too (wind >= 20)
WindAdjustAtThreshold(b, wind) ==
    IF wind >= StrongWind * Tenths
    THEN [b EXCEPT !.warning = Append(@, StrongWindNote)]
    ELSE b

\* wind adjustment (lines 130-131)
WindAdjust(b, wind) ==
    IF wind > StrongWind * Tenths
    THEN [b EXCEPT !.warning = Append(@, StrongWindNote)]
    ELSE b

\* str.title() on the bucket descriptions
Title(s) ==
    CASE s = "freezing" -> "Freezing"
      [] s = "cold" -> "Cold"
      [] s = "pleasant" -> "Pleasant"
      [] s = "hot" -> "Hot"
      [] s = "extremely hot" -> "Extremely Hot"

\* the classification the fallback computes from a reading (lines 91-131)
Classify(data) ==
    WindAdjust(HumidityAdjust(Bucket(data.temperature), data.humidity),
               data.wind_speed)

\* the report of the fallback path (lines 133-145)
RuleBasedReport(data, c) ==
    LET cl == Classify(data) IN
    [ title |-> "Weather Analysis for",
      city |-> c,
      body |-> [ assessment |-> Title(cl.temp_desc),
                 humidity |-> data.humidity,
                 comfort |-> cl.comfort,
                 wind |-> data.wind_speed,
                 activities |-> cl.activities,
                 clothing |-> cl.clothing,
                 warning |-> cl.warning ],
      raw |-> data,
      provenance |-> "Analysis: Rule-based AI (LLM unavailable)" ]

\* the prompt built before the attempt (lines 34-49)
WeatherPrompt(data, c) ==
    [ city |-> c, temperature |-> data.temperature,
      humidity |-> data.humidity, wind_speed |-> data.wind_speed ]

\* the arguments of client.chat.completions.create (lines 63-74)
Request(data, c) ==
    [ model |-> "gpt-3.5-turbo",
      system |-> "You are a helpful weather analysis expert.",
      user |-> WeatherPrompt(data, c),
      max_tokens |-> 300 ]

(***************************************************************************)
(* Inputs.                                                                 *)
(***************************************************************************)

SeqsUpTo(n) == UNION { [1..k -> Alphabet] : k \in 0..n }

\* one letter repeated, of the lengths around WindModulus
LongCities == { [i \in 1..k |-> a] : k \in (WindModulus - 1)..MaxLongLen, a \in Alphabet }

Cities == SeqsUpTo(MaxCityLen) \cup LongCities

Around(x) == (x - Window)..(x + Window)

\* the readings of the documented scenarios: 15 degrees at 85% humidity,
\* a 25 km/h wind, and a mild calm day
Scenarios ==
    { [temperature |-> 15 * Tenths, humidity |-> 85, wind_speed |-> 10 * Tenths],
      [temperature |-> 15 * Tenths, humidity |-> 50, wind_speed |-> 25 * Tenths],
      [temperature |-> 15 * Tenths, humidity |-> 50, wind_speed |-> 10 * Tenths] }

\* readings a caller of the analysis step can pass: around every threshold
Readings ==
    Scenarios \cup
    [ temperature : Around(0 * Tenths) \cup Around(10 * Tenths)
                      \cup Around(25 * Tenths) \cup Around(35 * Tenths),
      humidity : Around(LowHumidity) \cup Around(HighHumidity),
      wind_speed : Around(StrongWind * Tenths) ]

\* cities of the direct call: "", "Pa"
StepCities == { <<>>, <<80, 97>> }

(***************************************************************************)
(* State machine.                                                          *)
(***************************************************************************)

\* weather_agent_pipeline(city) is called
Init ==
    /\ pc = "get_weather"
    /\ city \in Cities
    /\ weather_data = None
    /\ api_key = None
    /\ response = None
    /\ requests = <<>>
    /\ exc = None
    /\ analysis = None

\* analyze_weather_with_llm(weather_data, city) is called on its own
InitStep ==
    /\ pc = "analyze"
    /\ city \in StepCities
    /\ weather_data \in { Some(r) : r \in Readings }
    /\ api_key = None
    /\ response = None
    /\ requests = <<>>
    /\ exc = None
    /\ analysis = None

\* line 160: the get_weather step; an exception leaves the pipeline
GetWeather ==
    /\ pc = "get_weather"
    /\ \E draw \in Draws :
         LET r == get_weather(city, draw) IN
         IF r.raised
         THEN /\ pc' = "raised"
              /\ exc' = Some(r.exception)
              /\ weather_data' = weather_data
         ELSE /\ pc' = "analyze"
              /\ weather_data' = Some(r.value)
              /\ exc' = exc
    /\ UNCHANGED <<city, api_key, response, requests, analysis>>

\* lines 29-55: read the reading, build the prompt, import os and openai
ImportOpenAI ==
    /\ pc = "analyze"
    /\ \E installed \in BOOLEAN :
         IF installed
         THEN pc' = "getenv" /\ exc' = exc
         ELSE pc' = Handler("ModuleNotFoundError") /\ exc' = Some("ModuleNotFoundError")
    /\ UNCHANGED <<city, weather_data, api_key, response, requests, analysis>>

\* lines 57-59: read the credential, raise ImportError when it is falsy
GetApiKey ==
    /\ pc = "getenv"
    /\ \E k \in ApiKeys :
         /\ api_key' = k
         /\ IF KeyMissing(k)
            THEN pc' = Handler("ImportError") /\ exc' = Some("ImportError")
            ELSE pc' = "client" /\ exc' = exc
    /\ UNCHANGED <<city, weather_data, response, requests, analysis>>

\* line 61: construct the client
MakeClient ==
    /\ pc = "client"
    /\ \E e \in ClientErrors \cup {"ok"} :
         IF e = "ok"
         THEN pc' = "create" /\ exc' = exc
         ELSE pc' = Handler(e) /\ exc' = Some(e)
    /\ UNCHANGED <<city, weather_data, api_key, response, requests, analysis>>

\* lines 63-74: the remote request; it answers or raises
CreateCompletion ==
    /\ pc = "create"
    /\ Len(requests) < MaxRequests
    /\ requests' = Append(requests, Request(weather_data[1], city))
    /\ \/ \E r \in Responses :
            /\ response' = Some(r)
            /\ pc' = "read"
            /\ exc' = exc
       \/ \E e \in CreateErrors :
            /\ response' = response
            /\ pc' = Handler(e)
            /\ exc' = Some(e)
    /\ UNCHANGED <<city, weather_data, api_key, analysis>>

\* lines 76-84: response.choices[0].message.content, then the LLM report
ReadReply ==
    /\ pc = "read"
    /\ IF response[1].choices = <<>>
       THEN /\ pc' = Handler("IndexError")
            /\ exc' = Some("IndexError")
            /\ analysis' = analysis
       ELSE /\ pc' = "returned"
            /\ exc' = exc
            /\ analysis' = Some(LLMReport(weather_data[1], city,
                                          Render(response[1].choices[1].content)))
    /\ UNCHANGED <<city, weather_data, api_key, response, requests>>

\* lines 86-145: the except branch returns the rule-based report
Fallback ==
    /\ pc = "except"
    /\ analysis' = Some(RuleBasedReport(weather_data[1], city))
    /\ pc' = "returned"
    /\ UNCHANGED <<city, weather_data, api_key, response, requests, exc>>

\* line 162: the pipeline returns the analysis
PipelineReturn ==
    /\ pc = "returned"
    /\ pc' = "done"
    /\ UNCHANGED <<city, weather_data, api_key, response, requests, exc, analysis>>

\* the steps of one call of analyze_weather_with_llm
NextStep ==
    \/ ImportOpenAI
    \/ GetApiKey
    \/ MakeClient
    \/ CreateCompletion
    \/ ReadReply
    \/ Fallback

Next ==
    \/ GetWeather
    \/ ImportOpenAI
    \/ GetApiKey
    \/ MakeClient
    \/ CreateCompletion
    \/ ReadReply
    \/ Fallback
    \/ PipelineReturn

\* the pipeline, end to end
Spec == Init /\ [][Next]_vars

\* the analysis step called directly with any reading
SpecStep == InitStep /\ [][NextStep]_vars

(***************************************************************************)
(* Vocabulary of the properties.                                           *)
(***************************************************************************)

Returned == pc \in {"returned", "done"} /\ analysis # None
IsLLM(r) == r.provenance = "Powered by: OpenAI GPT-3.5-turbo"
IsRuleBased(r) == r.provenance = "Analysis: Rule-based AI (LLM unavailable)"
RuleReturned == Returned /\ IsRuleBased(analysis[1])
Has(w, note) == \E i \in 1..Len(w) : w[i] = note
IndexOf(w, note) == CHOOSE i \in 1..Len(w) : w[i] = note

\* the documented bucket table: <<description, base comfort>>
Table(t) ==
    IF t < 0 THEN <<"freezing", 2>>
    ELSE IF t < 100 THEN <<"cold", 4>>
    ELSE IF t < 250 THEN <<"pleasant", 8>>
    ELSE IF t < 350 THEN <<"hot", 6>>
    ELSE <<"extremely hot", 3>>

Capitalised(d) ==
    CASE d = "freezing" -> "Freezing" [] d = "cold" -> "Cold"
      [] d = "pleasant" -> "Pleasant" [] d = "hot" -> "Hot"
      [] d = "extremely hot" -> "Extremely Hot"

(***************************************************************************)
(* C1. Whatever the reading, the city and the outcome of the remote        *)
(* attempt, the call of analyze_weather_with_llm never ends in a raised    *)
(* exception: it can always take its next step until it has returned, what *)
(* it returns is a non-empty report, and after any failure of the attempt  *)
(* the report is the rule-based one.                                       *)
(***************************************************************************)
C1_AlwaysReturnsReport ==
    /\ pc # "raised"
    /\ pc # "returned" => ENABLED NextStep
    /\ pc = "returned" =>
         /\ analysis # None
         /\ analysis[1].title # ""
         /\ analysis[1].provenance # ""
    /\ (pc = "returned" /\ exc # None) => IsRuleBased(analysis[1])

C1_Witness ==
    /\ pc = "returned"
    /\ exc = Some("APITimeoutError")
    /\ IsRuleBased(analysis[1])

(***************************************************************************)
(* C2. The fallback puts every temperature in exactly the bucket of the    *)
(* documented table (half-open ranges at 0, 10, 25 and 35 degrees), with   *)
(* that bucket's base comfort; -0.1 is freezing, 0 cold, 10 and 24.9       *)
(* pleasant, 25.0 hot and 35 extremely hot.                                *)
(***************************************************************************)
C2_Buckets ==
    /\ RuleReturned =>
         LET t == weather_data[1].temperature
             b == analysis[1].body
         IN /\ b.assessment = Capitalised(Table(t)[1])
            /\ Bucket(t).comfort = Table(t)[2]
            /\ weather_data[1].humidity <= 80 => b.comfort = Table(t)[2]
    /\ RuleReturned =>
         /\ <<Bucket(-1).temp_desc, Bucket(-1).comfort>> = <<"freezing", 2>>
         /\ <<Bucket(0).temp_desc, Bucket(0).comfort>> = <<"cold", 4>>
         /\ <<Bucket(100).temp_desc, Bucket(100).comfort>> = <<"pleasant", 8>>
         /\ <<Bucket(249).temp_desc, Bucket(249).comfort>> = <<"pleasant", 8>>
         /\ <<Bucket(250).temp_desc, Bucket(250).comfort>> = <<"hot", 6>>
         /\ <<Bucket(350).temp_desc, Bucket(350).comfort>> = <<"extremely hot", 3>>

C2_Witness ==
    /\ RuleReturned
    /\ weather_data[1].temperature = 250
    /\ analysis[1].body.assessment = "Hot"
    /\ analysis[1].body.comfort = 6

(***************************************************************************)
(* C3 as stated: in every fallback report exactly one of the two humidity  *)
(* branches has fired (the report carries the high-humidity note or the    *)
(* low-humidity note, and not both).                                       *)
(***************************************************************************)
C3_ExactlyOneFires ==
    RuleReturned =>
        LET w == analysis[1].body.warning
        IN Has(w, HighHumidityNote) # Has(w, LowHumidityNote)

(***************************************************************************)
(* C3 amended. At most one humidity branch fires: humidity > 80 gives the  *)
(* high-humidity note and comfort one below the bucket's base; humidity    *)
(* < 30 gives the low-humidity note and the base comfort; for 30 <=        *)
(* humidity <= 80 neither note is added and the comfort is the base.       *)
(***************************************************************************)
C3_AtMostOneFires ==
    RuleReturned =>
        LET h == weather_data[1].humidity
            base == Table(weather_data[1].temperature)[2]
            b == analysis[1].body
            high == Has(b.warning, HighHumidityNote)
            low == Has(b.warning, LowHumidityNote)
        IN /\ ~(high /\ low)
           /\ high <=> h > 80
           /\ low <=> h < 30
           /\ b.comfort = IF h > 80 THEN base - 1 ELSE base

C3_Witness ==
    /\ RuleReturned
    /\ weather_data[1].temperature = 150
    /\ weather_data[1].humidity = 85
    /\ analysis[1].body.comfort = 7
    /\ Has(analysis[1].body.warning, HighHumidityNote)

(***************************************************************************)
(* C4. For a non-empty city get_weather gives humidity in 40..79 and       *)
(* wind_speed in 5..19, the same for every random draw, and a temperature  *)
(* within 5 degrees of (sum of the codes of the lowercased city) mod 30.   *)
(***************************************************************************)
C4_ReadingRanges ==
    (city # <<>> /\ pc # "get_weather") =>
        /\ weather_data # None
        /\ LET r == weather_data[1]
               base == SumLower(city) % 30
           IN /\ r.humidity \in 40..79
              /\ r.wind_speed \in (5 * Tenths)..(19 * Tenths)
              /\ r.temperature \in ((base - 5) * Tenths)..((base + 5) * Tenths)
              /\ \A d \in Draws :
                    /\ get_weather(city, d).value.humidity = r.humidity
                    /\ get_weather(city, d).value.wind_speed = r.wind_speed

C4_Witness ==
    /\ pc = "analyze"
    /\ Len(city) = 15
    /\ city[1] = 79
    /\ weather_data[1].humidity = 79
    /\ weather_data[1].wind_speed = 5 * Tenths

(***************************************************************************)
(* C5. One call issues at most one remote request: once an exception has   *)
(* been raised no request follows, and the fallback issues none.           *)
(***************************************************************************)
C5_SingleAttempt ==
    /\ [](Len(requests) <= 1)
    /\ [][(exc # None \/ pc = "except") => requests' = requests]_vars

C5_Witness ==
    /\ pc = "returned"
    /\ exc = Some("RateLimitError")
    /\ Len(requests) = 1
    /\ IsRuleBased(analysis[1])

(***************************************************************************)
(* C6. A returned report carries exactly one provenance tag; it is the LLM *)
(* one exactly when the credential was present, the request was made and   *)
(* answered, and the reply could be read; with an absent credential (unset *)
(* or empty) no request is ever issued.                                    *)
(***************************************************************************)
C6_Provenance ==
    /\ Returned =>
         LET r == analysis[1]
             ok == /\ api_key # None
                   /\ api_key[1] # ""
                   /\ Len(requests) = 1
                   /\ response # None
                   /\ response[1].choices # <<>>
         IN /\ IsLLM(r) # IsRuleBased(r)
            /\ IsLLM(r) <=> ok
            /\ IsLLM(r) => r.body = Render(response[1].choices[1].content)
    /\ (api_key = None \/ api_key = Some("")) => requests = <<>>

C6_Witness ==
    /\ pc = "returned"
    /\ api_key = Some("sk-test")
    /\ IsLLM(analysis[1])
    /\ analysis[1].body = "None"

(***************************************************************************)
(* C7. In every fallback report the strong-wind note is present exactly    *)
(* when wind_speed > 20 (not at 20), whatever the bucket and the humidity; *)
(* when a humidity note is present too it comes before the wind note; the  *)
(* comfort score does not depend on the wind.                              *)
(***************************************************************************)
C7_Wind ==
    RuleReturned =>
        LET d == weather_data[1]
            b == analysis[1].body
            w == b.warning
            base == Table(d.temperature)[2]
        IN /\ Has(w, StrongWindNote) <=> d.wind_speed > 200
           /\ (d.wind_speed > 200 /\ d.humidity > 80) =>
                 /\ Has(w, HighHumidityNote)
                 /\ IndexOf(w, HighHumidityNote) < IndexOf(w, StrongWindNote)
           /\ (d.wind_speed > 200 /\ d.humidity < 30) =>
                 /\ Has(w, LowHumidityNote)
                 /\ IndexOf(w, LowHumidityNote) < IndexOf(w, StrongWindNote)
           /\ b.comfort = IF d.humidity > 80 THEN base - 1 ELSE base

C7_Witness ==
    /\ RuleReturned
    /\ weather_data[1].wind_speed = 201
    /\ weather_data[1].humidity = 81
    /\ Len(analysis[1].body.warning) = 3
    /\ analysis[1].body.warning[2] = HighHumidityNote
    /\ analysis[1].body.warning[3] = StrongWindNote

(***************************************************************************)
(* C8. For the empty city get_weather raises (IndexError) and the error    *)
(* leaves the pipeline: no reading, no analysis step, no request, no       *)
(* report, and nothing runs after the error.                               *)
(***************************************************************************)
C8_EmptyCity ==
    city = <<>> =>
        /\ pc \in {"get_weather", "raised"}
        /\ weather_data = None
        /\ analysis = None
        /\ requests = <<>>
        /\ pc = "get_weather" => ENABLED GetWeather
        /\ pc = "raised" => (exc = Some("IndexError") /\ ~ENABLED Next)

C8_Witness ==
    /\ city = <<>>
    /\ pc = "raised"
    /\ exc = Some("IndexError")

(***************************************************************************)
(* C9. The comfort score of every fallback report is within 1..8, hence    *)
(* within the documented 1..10, and it is 1 only for the freezing bucket   *)
(* with humidity > 80.                                                     *)
(***************************************************************************)
C9_ComfortRange ==
    RuleReturned =>
        LET b == analysis[1].body
        IN /\ b.comfort \in 1..8
           /\ b.comfort = 1 =>
                 (b.assessment = "Freezing" /\ weather_data[1].humidity > 80)

C9_Witness ==
    /\ RuleReturned
    /\ analysis[1].body.comfort = 1
    /\ analysis[1].body.assessment = "Freezing"

(***************************************************************************)
(* C10. In the pipeline the reading comes from get_weather, so a fallback  *)
(* report never has a humidity or wind note, is never 'extremely hot', and *)
(* its comfort is the base value of its bucket.                            *)
(***************************************************************************)
C10_PipelineReports ==
    RuleReturned =>
        LET d == weather_data[1]
            b == analysis[1].body
        IN /\ d.temperature \in -50..340
           /\ Len(b.warning) = 1
           /\ ~Has(b.warning, HighHumidityNote)
           /\ ~Has(b.warning, LowHumidityNote)
           /\ ~Has(b.warning, StrongWindNote)
           /\ b.assessment # "Extremely Hot"
           /\ b.comfort \in {2, 4, 8, 6}
           /\ b.comfort = Table(d.temperature)[2]

C10_Witness ==
    /\ pc = "done"
    /\ RuleReturned
    /\ city = <<80, 97>>
    /\ weather_data[1].temperature = 340
    /\ weather_data[1].humidity = 40
    /\ analysis[1].body.assessment = "Hot"

====
